---- MODULE Spec2Model ----
(***************************************************************************)
(* Model of src/Program.py: synchronous average consensus over a random    *)
(* connected graph, with the in-memory mailboxes of ConsensusAgent and the *)
(* cost counters of main().                                                *)
(*                                                                         *)
(* Numbers.  The program computes with Python floats.  The model computes  *)
(* with exact rationals <<n, d>> (d >= 1, lowest terms): every float       *)
(* operation is modelled by the real operation it rounds, so the model     *)
(* says nothing about rounding error.                                      *)
(*                                                                         *)
(* Configuration.  NUM_AGENTS = 10, the edge count 15 and MAX_ITER = 50    *)
(* are fixed in the program; the model carries them as state components    *)
(* num_agents, num_edges and max_iter, fixed by the initial state, so that *)
(* scaled-down runs and the 4-node scenario can be explored.               *)
(***************************************************************************)
EXTENDS Integers, Sequences, FiniteSets, TLC

\* ---- program constants (src/Program.py:9-10) ----
MAX_ITER == 50
TARGET_PRECISION == <<1, 10000>>

\* ---- bounds of the explored configurations ----
MaxAgents == 4
MaxIter == 3
InitialValueChoices == {0, 60}

\* The initial value vectors explored for n nodes: the choices in nondecreasing
\* order of node.  Every graph on the n nodes is drawn, so every assignment of
\* the choices to the nodes of a graph is one of these up to renaming the nodes.
InitialValueVectors(n) ==
    {f \in [0 .. (n - 1) -> InitialValueChoices] :
        \A i \in 0 .. (n - 2) : f[i] <= f[i + 1]}

\* ---- exact rational arithmetic standing for float arithmetic ----
\* The operations are functions, so that their arguments are evaluated once.
Rat == Int \X Nat

GCD[a \in Nat, b \in Nat] == IF b = 0 THEN a ELSE GCD[b, a % b]

AbsInt[n \in Int] == IF n < 0 THEN -n ELSE n

Norm[n \in Int, d \in Nat] == <<n \div GCD[AbsInt[n], d], d \div GCD[AbsInt[n], d]>>

Float(k) == <<k, 1>>

LCM[a \in Nat, b \in Nat] == (a \div GCD[a, b]) * b

\* x + y
FAdd[x \in Rat, y \in Rat] ==
    Norm[x[1] * (LCM[x[2], y[2]] \div x[2]) + y[1] * (LCM[x[2], y[2]] \div y[2]),
         LCM[x[2], y[2]]]

\* x - y
FSub[x \in Rat, y \in Rat] ==
    Norm[x[1] * (LCM[x[2], y[2]] \div x[2]) - y[1] * (LCM[x[2], y[2]] \div y[2]),
         LCM[x[2], y[2]]]

\* abs(x)
FAbs[x \in Rat] == <<AbsInt[x[1]], x[2]>>

\* x / k
FDivInt[x \in Rat, k \in Nat] == Norm[x[1], x[2] * k]

\* x * k
FMulInt[x \in Rat, k \in Nat] == Norm[x[1] * k, x[2]]

\* a/b < c/d for a, c >= 0 and b, d >= 1, by comparing continued fractions
\* (no cross product, so no overflow on large denominators)
LessFrac[a \in Nat, b \in Nat, c \in Nat, d \in Nat] ==
    IF a \div b # c \div d THEN a \div b < c \div d
    ELSE IF c % d = 0 THEN FALSE
    ELSE IF a % b = 0 THEN TRUE
    ELSE LessFrac[d, c % d, b, a % b]

\* x < y on non-negative floats
FLess(x, y) == LessFrac[x[1], x[2], y[1], y[2]]

\* max(x, y)
FMax[x \in Rat, y \in Rat] == IF FLess(x, y) THEN y ELSE x

\* sum(all_vals): left fold from 0
FSum[s \in Seq(Rat)] ==
    IF s = <<>> THEN Float(0) ELSE FAdd[FSum[SubSeq(s, 1, Len(s) - 1)], s[Len(s)]]

\* ---- graphs (networkx, as used at src/Program.py:40-42, 73, 81) ----
NodesOf(n) == 0 .. (n - 1)

AllPairs(n) == {{i, j} : i, j \in NodesOf(n)} \ {{i} : i \in NodesOf(n)}

\* nx.gnm_random_graph(n, m): a simple graph with exactly m edges, or the
\* complete graph when m is at least the number of node pairs
GnmRandomGraph(n, m) ==
    IF 2 * m >= n * (n - 1) THEN {AllPairs(n)}
    ELSE {E \in SUBSET AllPairs(n) : Cardinality(E) = m}

\* G.neighbors(i)
Neighbors(E, i) == {j \in UNION E : {i, j} \in E /\ j # i}

\* the nodes reachable from node 0
ReachFromZero(E, n) ==
    LET reach[S \in SUBSET NodesOf(n)] ==
            IF S \cup UNION {Neighbors(E, i) : i \in S} = S THEN S
            ELSE reach[S \cup UNION {Neighbors(E, i) : i \in S}]
    IN  reach[{0}]

\* variant: the connectivity test left out
IsConnectedUnchecked(E, n) == TRUE

\* variant: the loop condition inverted
IsConnectedInverted(E, n) == ReachFromZero(E, n) # NodesOf(n)

\* nx.is_connected(G)
IsConnected(E, n) == ReachFromZero(E, n) = NodesOf(n)

\* the elements of a set of numbers in increasing order
SortedSeq(S) ==
    CHOOSE q \in [1 .. Cardinality(S) -> S] :
        \A k \in 1 .. (Cardinality(S) - 1) : q[k] < q[k + 1]

\* the lists of neighbours_map (src/Program.py:80-83); a node's recipients
\* are distinct, and the model lists them in increasing order
NeighbourList(E, i) == SortedSeq(Neighbors(E, i))


\* ---- state ----
VARIABLES
    num_agents,       \* NUM_AGENTS of this run (src/Program.py:8)
    num_edges,        \* the edge count given to gnm_random_graph (src/Program.py:40)
    max_iter,         \* MAX_ITER of this run (src/Program.py:10)
    initial_values,   \* initial_values (src/Program.py:35)
    true_mean,        \* true_mean (src/Program.py:36)
    G,                \* the edge set of G (src/Program.py:40-42)
    rejected,         \* history: a disconnected candidate has been discarded
    neighbours_map,   \* neighbours_map (src/Program.py:80-83)
    message_boxes,    \* message_boxes (src/Program.py:12)
    current_values,   \* current_values (src/Program.py:79, 134)
    new_values,       \* new_values (src/Program.py:111, 131)
    max_diff,         \* max_diff (src/Program.py:112, 132)
    received,         \* received (src/Program.py:114, 121)
    total_messages,   \* total_messages (src/Program.py:86, 108)
    total_arith_ops,  \* total_arith_ops (src/Program.py:87, 122, 128)
    iterations_done,  \* iterations_done (src/Program.py:88, 135)
    iteration,        \* the index the for loop is at (src/Program.py:97)
    pc,               \* the position of main()
    si,               \* the sender the broadcast loop is at (src/Program.py:102)
    ni,               \* the position in that sender's neighbour list (src/Program.py:103)
    ri,               \* the node the aggregation loop is at (src/Program.py:113)
    outcome,          \* the outcome messages printed so far (src/Program.py:145, 148)
    diff_log,         \* history: max_diff of every completed round
    final_val,        \* final_val (src/Program.py:150)
    total_cost,       \* total_cost (src/Program.py:162)
    injected          \* history: the <<node, round>> of unparseable payloads put into a mailbox

vars == <<num_agents, num_edges, max_iter, initial_values, true_mean, G, rejected,
          neighbours_map, message_boxes, current_values, new_values, max_diff,
          received, total_messages, total_arith_ops, iterations_done, iteration,
          pc, si, ni, ri, outcome, diff_log, final_val, total_cost, injected>>

config == <<num_agents, num_edges, max_iter, initial_values, true_mean>>
counters == <<total_messages, total_arith_ops, iterations_done>>
roundvars == <<new_values, max_diff, received>>
cursors == <<si, ni, ri>>
results == <<outcome, final_val, total_cost>>

Nodes == NodesOf(num_agents)

EmptyMap == [i \in {} |-> Float(0)]

\* msg.body = str(value) (src/Program.py:105); float(msg.body) gives the value back
Payload(v) == [kind |-> "repr", val |-> v]

\* a body float() raises ValueError on (src/Program.py:123)
Malformed == [kind |-> "text", val |-> Float(0)]

\* Message(to=nb) with its body (src/Program.py:104-105)
Msg(to, v) == [to |-> to, body |-> Payload(v)]

\* bookkeeping for the properties: the message together with the agent whose
\* send() delivers it (src/Program.py:106-107) and the round it is sent in; the
\* program stores neither, and no step of the program reads them
Stamp(msg, by, t) == [to |-> msg.to, body |-> msg.body, by |-> by, round |-> t]

\* sum(initial_values) / NUM_AGENTS (src/Program.py:36)
MeanOfMap(f, n) == FDivInt[FSum[[k \in 1 .. n |-> f[k - 1]]], n]

InitRun(n, m, cap, vals) ==
    /\ num_agents = n
    /\ num_edges = m
    /\ max_iter = cap
    /\ initial_values = vals
    /\ true_mean = MeanOfMap(vals, n)
    /\ rejected = FALSE
    /\ message_boxes = [i \in NodesOf(n) |-> <<>>]
    /\ new_values = EmptyMap
    /\ max_diff = Float(0)
    /\ received = <<>>
    /\ total_messages = 0
    /\ total_arith_ops = 0
    /\ iterations_done = 0
    /\ iteration = 0
    /\ si = 0
    /\ ni = 1
    /\ ri = 0
    /\ outcome = {}
    /\ diff_log = <<>>
    /\ final_val = Float(0)
    /\ total_cost = Float(0)
    /\ injected = {}

\* the edge counts explored for n nodes: the spanning-tree minimum, where a
\* candidate may be disconnected, and the complete graph
EdgeChoices(n) == {n - 1, (n * (n - 1)) \div 2}

Init ==
    \E m \in EdgeChoices(MaxAgents), cap \in 1 .. MaxIter :
    \E f \in InitialValueVectors(MaxAgents) :
        /\ InitRun(MaxAgents, m, cap, [i \in NodesOf(MaxAgents) |-> Float(f[i])])
        /\ G = {}
        /\ neighbours_map = [i \in NodesOf(MaxAgents) |-> <<>>]
        /\ current_values = EmptyMap
        /\ pc = "gnm"

\* ---- topology generation (src/Program.py:40-42) ----
Draw ==
    /\ pc = "gnm"
    /\ G' \in GnmRandomGraph(num_agents, num_edges)
    /\ pc' = "is_connected"
    /\ UNCHANGED <<config, rejected, neighbours_map, message_boxes, current_values,
                   roundvars, counters, iteration, cursors, results, diff_log, injected>>

Redraw ==
    /\ pc = "is_connected"
    /\ ~IsConnected(G, num_agents)
    /\ G' \in GnmRandomGraph(num_agents, num_edges)
    /\ rejected' = TRUE
    /\ UNCHANGED <<config, neighbours_map, message_boxes, current_values, roundvars,
                   counters, iteration, pc, cursors, results, diff_log, injected>>

\* the loop is left; lines 70-88 build neighbours_map, current_values and
\* the zeroed counters
Accept ==
    /\ pc = "is_connected"
    /\ IsConnected(G, num_agents)
    /\ neighbours_map' = [i \in Nodes |-> NeighbourList(G, i)]
    /\ current_values' = initial_values
    /\ total_messages' = 0
    /\ total_arith_ops' = 0
    /\ iterations_done' = 0
    /\ iteration' = 0
    /\ pc' = "for"
    /\ UNCHANGED <<config, G, rejected, message_boxes, roundvars, cursors, results,
                   diff_log, injected>>

\* ---- ConsensusAgent (src/Program.py:21-30) ----
\* variant: the message appended twice
SendMsgTwice(boxes, msg) ==
    IF msg.to \in DOMAIN boxes
    THEN [boxes EXCEPT ![msg.to] = Append(Append(@, msg), msg)]
    ELSE boxes

\* send(msg): appended to the recipient's box when the recipient has one
SendMsg(boxes, msg) ==
    IF msg.to \in DOMAIN boxes
    THEN [boxes EXCEPT ![msg.to] = Append(@, msg)]
    ELSE boxes

\* variant: the last message of a box is not seen
HasMessageMoreThanOne(boxes, jid) == Len(boxes[jid]) > 1

\* receive(): None on an empty box
HasMessage(boxes, jid) == boxes[jid] # <<>>

\* receive(): pop(0)
PopMessage(boxes, jid) == [boxes EXCEPT ![jid] = Tail(@)]

\* ---- pieces of the round loop ----
\* variant: every body is taken as a number
ParsesAsFloatLenient(body) == TRUE

\* float(msg.body) succeeds (src/Program.py:121)
ParsesAsFloat(body) == body.kind = "repr"

FloatOf(body) == body.val

\* variant: a message counted twice
IncMessagesTwice(t) == t + 2

\* variant: the counter stepped down
IncMessagesDown(t) == t - 1

\* total_messages += 1 (src/Program.py:108)
IncMessages(t) == t + 1

\* variant: a parsed payload not counted
IncParsedNone(t) == t

\* total_arith_ops += 1 per parsed payload (src/Program.py:122)
IncParsed(t) == t + 1

\* variant: the division not counted
ArithOpsOfMeanNoDivision(num_vals) == num_vals - 1

\* total_arith_ops += (num_vals - 1) + 1 (src/Program.py:128)
ArithOpsOfMean(num_vals) == (num_vals - 1) + 1

\* variant: floor division
MeanFloor(all_vals) ==
    LET m == FDivInt[FSum[all_vals], Len(all_vals)] IN Float(m[1] \div m[2])

\* variant: the sum divided by the number of values received
MeanOverReceived(all_vals) == FDivInt[FSum[all_vals], Len(all_vals) - 1]

\* variant: the value that arrived last left out of the sum
MeanWithoutLast(all_vals) ==
    FDivInt[FSum[SubSeq(all_vals, 1, Len(all_vals) - 1)], Len(all_vals)]

\* sum(all_vals) / num_vals (src/Program.py:130)
Mean(all_vals) == FDivInt[FSum[all_vals], Len(all_vals)]

RECURSIVE Dedupe(_)
Dedupe(s) ==
    IF s = <<>> THEN <<>>
    ELSE LET front == Dedupe(SubSeq(s, 1, Len(s) - 1))
             last == s[Len(s)]
         IN  IF \E k \in 1 .. Len(front) : front[k] = last THEN front
             ELSE Append(front, last)

\* variant: equal received values kept once
AllValsDistinct(own, recv) == <<own>> \o Dedupe(recv)

\* [current_values[jid]] + received (src/Program.py:126)
AllVals(own, recv) == <<own>> \o recv

\* variant: the new value written into current_values as well
StoreInPlace(cur, new, jid, v) == <<[cur EXCEPT ![jid] = v], new @@ (jid :> v)>>

\* new_values[jid] = new_val (src/Program.py:131): the pair <<current_values, new_values>>
\* after the assignment
StoreNewValue(cur, new, jid, v) == <<cur, new @@ (jid :> v)>>

\* variant: the change of the last node only
NextMaxDiffLast(md, new_val, old_val) == FAbs[FSub[new_val, old_val]]

\* max(max_diff, abs(new_val - current_values[jid])) (src/Program.py:132)
NextMaxDiff(md, new_val, old_val) == FMax[md, FAbs[FSub[new_val, old_val]]]

\* variant: the comparison inverted
ConvergedInverted(md) == FLess(TARGET_PRECISION, md)

\* variant: the threshold itself accepted
ConvergedOrEqual(md) == ~FLess(TARGET_PRECISION, md)

\* max_diff < TARGET_PRECISION (src/Program.py:144)
Converged(md) == FLess(md, TARGET_PRECISION)

\* variant: one index too many
HasNextIterationInclusive(it, cap) == it <= cap

\* iteration in range(MAX_ITER) has a next index (src/Program.py:97)
HasNextIteration(it, cap) == it < cap

\* total_cost (src/Program.py:156-162)
TotalCost(n, iters, ops, msgs) ==
    FAdd[FAdd[FAdd[FAdd[Float(n), Float(iters)], FMulInt[<<1, 100>>, ops]],
              FMulInt[<<1, 10>>, msgs]],
         Float(1000)]

\* the first sender at or after s whose neighbour list is not empty (the inner
\* loop of a node without neighbours has no pass), or n when there is none
FirstSender(nm, s, n) ==
    LET C == {t \in s .. (n - 1) : Len(nm[t]) > 0}
    IN  IF C = {} THEN n ELSE CHOOSE t \in C : \A u \in C : t <= u

\* ---- the round loop (src/Program.py:97-148) ----
ClearBoxes ==
    /\ pc = "for"
    /\ HasNextIteration(iteration, max_iter)
    /\ message_boxes' = [i \in DOMAIN message_boxes |-> <<>>]
    /\ si' = FirstSender(neighbours_map, 0, num_agents)
    /\ ni' = 1
    /\ pc' = "send"
    /\ UNCHANGED <<config, G, rejected, neighbours_map, current_values, roundvars,
                   counters, iteration, ri, results, diff_log, injected>>

\* one pass of the inner loop at lines 103-108
Send ==
    /\ pc = "send"
    /\ si < num_agents
    /\ LET nb == neighbours_map[si][ni]
           lastOfSender == ni >= Len(neighbours_map[si])
       IN  /\ message_boxes' = SendMsg(message_boxes,
                                         Stamp(Msg(nb, current_values[si]), si, iteration))
           /\ total_messages' = IncMessages(total_messages)
           /\ si' = IF lastOfSender
                    THEN FirstSender(neighbours_map, si + 1, num_agents)
                    ELSE si
           /\ ni' = IF lastOfSender THEN 1 ELSE ni + 1
    /\ UNCHANGED <<config, G, rejected, neighbours_map, current_values, roundvars,
                   total_arith_ops, iterations_done, iteration, pc, ri, results,
                   diff_log, injected>>

\* the broadcast loop is over: new_values = {}; max_diff = 0.0 (src/Program.py:111-112)
BeginAggregate ==
    /\ pc = "send"
    /\ si >= num_agents
    /\ new_values' = EmptyMap
    /\ max_diff' = Float(0)
    /\ received' = <<>>
    /\ ri' = 0
    /\ pc' = "aggregate"
    /\ UNCHANGED <<config, G, rejected, neighbours_map, message_boxes, current_values,
                   counters, iteration, si, ni, results, diff_log, injected>>

\* one pass of the while loop at lines 116-124 that gets a message
Receive ==
    /\ pc = "aggregate"
    /\ HasMessage(message_boxes, ri)
    /\ LET msg == Head(message_boxes[ri])
       IN  /\ message_boxes' = PopMessage(message_boxes, ri)
           /\ IF ParsesAsFloat(msg.body)
              THEN /\ received' = Append(received, FloatOf(msg.body))
                   /\ total_arith_ops' = IncParsed(total_arith_ops)
              ELSE UNCHANGED <<received, total_arith_ops>>
    /\ UNCHANGED <<config, G, rejected, neighbours_map, current_values, new_values,
                   max_diff, total_messages, iterations_done, iteration, pc, cursors,
                   results, diff_log, injected>>

\* receive() returned None: lines 118-119 and 126-132 for the node at ri
Aggregate ==
    /\ pc = "aggregate"
    /\ ~HasMessage(message_boxes, ri)
    /\ LET all_vals == AllVals(current_values[ri], received)
           num_vals == Len(all_vals)
           new_val == Mean(all_vals)
           stored == StoreNewValue(current_values, new_values, ri, new_val)
       IN  /\ total_arith_ops' = total_arith_ops + ArithOpsOfMean(num_vals)
           /\ current_values' = stored[1]
           /\ new_values' = stored[2]
           /\ max_diff' = NextMaxDiff(max_diff, new_val, current_values[ri])
    /\ received' = <<>>
    /\ ri' = ri + 1
    /\ pc' = IF ri + 1 >= num_agents THEN "apply" ELSE "aggregate"
    /\ UNCHANGED <<config, G, rejected, neighbours_map, message_boxes, total_messages,
                   iterations_done, iteration, si, ni, results, diff_log, injected>>

\* current_values = new_values; iterations_done += 1 (src/Program.py:134-135)
ApplyRound ==
    /\ pc = "apply"
    /\ current_values' = new_values
    /\ iterations_done' = iterations_done + 1
    /\ diff_log' = Append(diff_log, max_diff)
    /\ pc' = "check"
    /\ UNCHANGED <<config, G, rejected, neighbours_map, message_boxes, roundvars,
                   total_messages, total_arith_ops, iteration, cursors, results,
                   injected>>

\* src/Program.py:144-146
ConvergedBreak ==
    /\ pc = "check"
    /\ Converged(max_diff)
    /\ outcome' = outcome \cup {"Converged"}
    /\ pc' = "report"
    /\ UNCHANGED <<config, G, rejected, neighbours_map, message_boxes, current_values,
                   roundvars, counters, iteration, cursors, final_val, total_cost,
                   diff_log, injected>>

NextIteration ==
    /\ pc = "check"
    /\ ~Converged(max_diff)
    /\ iteration' = iteration + 1
    /\ pc' = "for"
    /\ UNCHANGED <<config, G, rejected, neighbours_map, message_boxes, current_values,
                   roundvars, counters, cursors, results, diff_log, injected>>

\* the else branch of the for loop (src/Program.py:147-148)
LimitReached ==
    /\ pc = "for"
    /\ ~HasNextIteration(iteration, max_iter)
    /\ outcome' = outcome \cup {"IterationLimitReached"}
    /\ pc' = "report"
    /\ UNCHANGED <<config, G, rejected, neighbours_map, message_boxes, current_values,
                   roundvars, counters, iteration, cursors, final_val, total_cost,
                   diff_log, injected>>

\* src/Program.py:150-162
Report ==
    /\ pc = "report"
    /\ final_val' = current_values[0]
    /\ total_cost' = TotalCost(num_agents, iterations_done, total_arith_ops,
                               total_messages)
    /\ pc' = "done"
    /\ UNCHANGED <<config, G, rejected, neighbours_map, message_boxes, current_values,
                   roundvars, counters, iteration, cursors, outcome, diff_log, injected>>

Next ==
    \/ Draw
    \/ Redraw
    \/ Accept
    \/ ClearBoxes
    \/ Send
    \/ BeginAggregate
    \/ Receive
    \/ Aggregate
    \/ ApplyRound
    \/ ConvergedBreak
    \/ NextIteration
    \/ LimitReached
    \/ Report

Spec == Init /\ [][Next]_vars

\* ---- termination: the steps of main() are taken, and the random redraws do
\* not avoid the connected graphs forever ----
RedrawConnected == Redraw /\ IsConnected(G', num_agents)

FairSpec == Spec /\ WF_vars(Next) /\ WF_vars(RedrawConnected)

\* ---- an unparseable payload in a mailbox ----
InsertAt(s, p, x) == SubSeq(s, 1, p) \o <<x>> \o SubSeq(s, p + 1, Len(s))

\* message_boxes is a module-level dictionary: a payload that float() rejects
\* is put into one node's box during the broadcast phase, once in a run.  The
\* step is taken at the end of the broadcast phase, at any position of the box.
InjectMalformed ==
    /\ pc = "send"
    /\ si >= num_agents
    /\ injected = {}
    /\ \E i \in Nodes, p \in 0 .. MaxAgents :
          /\ p <= Len(message_boxes[i])
          /\ message_boxes' = [message_boxes EXCEPT
                 ![i] = InsertAt(@, p, Stamp([to |-> i, body |-> Malformed],
                                            -1, iteration))]
          /\ injected' = {<<i, iteration>>}
    /\ UNCHANGED <<config, G, rejected, neighbours_map, current_values, roundvars,
                   counters, iteration, pc, cursors, results, diff_log>>

NextInject ==
    \/ Next
    \/ InjectMalformed

\* the runs of a single round, the round the payload is injected in
InitInject == Init /\ max_iter = 1

SpecInject == InitInject /\ [][NextInject]_vars

\* ---- the scenario of the 4-node cycle 0-1-2-3-0 with values 10, 20, 30, 40 ----
CycleEdges == {{0, 1}, {1, 2}, {2, 3}, {3, 0}}

CycleValues == [i \in NodesOf(4) |-> Float(10 * (i + 1))]

InitCycle ==
    /\ InitRun(4, 4, MAX_ITER, CycleValues)
    /\ G = CycleEdges
    /\ neighbours_map = [i \in NodesOf(4) |-> <<>>]
    /\ current_values = EmptyMap
    /\ pc = "is_connected"

\* the round loop on the given graph; LimitReached is left out and
\* CycleScenario states that it is never enabled
NextCycle ==
    \/ Accept
    \/ ClearBoxes
    \/ Send
    \/ BeginAggregate
    \/ Receive
    \/ Aggregate
    \/ ApplyRound
    \/ ConvergedBreak
    \/ NextIteration
    \/ Report

SpecCycle == InitCycle /\ [][NextCycle]_vars

\* ---- a run on the complete graph in which the first round's max-diff is
\* exactly TARGET_PRECISION: three values 0 and one value 1/7500 give the new
\* value 1/30000 to every node, a change of 3/30000 for the last node ----
ThresholdValues == [i \in NodesOf(4) |-> IF i = 3 THEN <<1, 7500>> ELSE Float(0)]

InitThreshold ==
    /\ InitRun(4, 6, MAX_ITER, ThresholdValues)
    /\ G = {}
    /\ neighbours_map = [i \in NodesOf(4) |-> <<>>]
    /\ current_values = EmptyMap
    /\ pc = "gnm"

\* ---- the bounded runs together with the run of the cycle scenario, which
\* goes on until its values agree to within TARGET_PRECISION, and the run
\* that meets the threshold exactly ----
InitScenarios == Init \/ InitCycle \/ InitThreshold

SpecScenarios == InitScenarios /\ [][Next]_vars

\* ---- a round whose nodes send and aggregate in any order ----
\* the sends of the round are the pairs of a node and one of its neighbours;
\* Sent tells whether s has sent to nb in the round under way
Sent(boxes, s, nb) == \E k \in 1 .. Len(boxes[nb]) : boxes[nb][k].by = s

\* the body of the loop at lines 103-108 for any sender and any neighbour it
\* has not sent to: every order of the senders, every order of a neighbour
\* list, and the sends of concurrent tasks one by one
SendAnyOrder ==
    /\ pc = "send"
    /\ \E s \in Nodes : \E k \in 1 .. Len(neighbours_map[s]) :
          LET nb == neighbours_map[s][k]
          IN  /\ ~Sent(message_boxes, s, nb)
              /\ message_boxes' = SendMsg(message_boxes,
                                          Stamp(Msg(nb, current_values[s]), s, iteration))
              /\ total_messages' = IncMessages(total_messages)
    /\ UNCHANGED <<config, G, rejected, neighbours_map, current_values, roundvars,
                   total_arith_ops, iterations_done, iteration, pc, cursors, results,
                   diff_log, injected>>

\* the send-complete barrier: every node has sent to every neighbour; the
\* node to aggregate first is any node
BarrierAnyOrder ==
    /\ pc = "send"
    /\ \A s \in Nodes : \A k \in 1 .. Len(neighbours_map[s]) :
          Sent(message_boxes, s, neighbours_map[s][k])
    /\ new_values' = EmptyMap
    /\ max_diff' = Float(0)
    /\ received' = <<>>
    /\ ri' \in Nodes
    /\ pc' = "aggregate"
    /\ UNCHANGED <<config, G, rejected, neighbours_map, message_boxes, current_values,
                   counters, iteration, si, ni, results, diff_log, injected>>

\* lines 118-119 and 126-132 for the node at ri; the node to aggregate next
\* is any node that has not aggregated, and the aggregate-complete barrier is
\* passed when there is none
AggregateAnyOrder ==
    /\ pc = "aggregate"
    /\ ~HasMessage(message_boxes, ri)
    /\ LET all_vals == AllVals(current_values[ri], received)
           num_vals == Len(all_vals)
           new_val == Mean(all_vals)
           stored == StoreNewValue(current_values, new_values, ri, new_val)
           rest == Nodes \ (DOMAIN new_values \cup {ri})
       IN  /\ total_arith_ops' = total_arith_ops + ArithOpsOfMean(num_vals)
           /\ current_values' = stored[1]
           /\ new_values' = stored[2]
           /\ max_diff' = NextMaxDiff(max_diff, new_val, current_values[ri])
           /\ IF rest = {}
              THEN ri' = ri /\ pc' = "apply"
              ELSE ri' \in rest /\ pc' = "aggregate"
    /\ received' = <<>>
    /\ UNCHANGED <<config, G, rejected, neighbours_map, message_boxes, total_messages,
                   iterations_done, iteration, si, ni, results, diff_log, injected>>

NextAnyOrder ==
    \/ Draw
    \/ Redraw
    \/ Accept
    \/ ClearBoxes
    \/ SendAnyOrder
    \/ BarrierAnyOrder
    \/ Receive
    \/ AggregateAnyOrder
    \/ ApplyRound
    \/ ConvergedBreak
    \/ NextIteration
    \/ LimitReached
    \/ Report

\* one round on the graphs of 4 nodes with 3 or 4 edges, from the vectors of
\* equal and unequal values and from the vector 10, 20, 30, 40
InitAnyOrder ==
    \E m \in {3, 4} :
    \E vals \in {[i \in NodesOf(4) |-> Float(f[i])] : f \in InitialValueVectors(4)}
                \cup {CycleValues} :
        /\ InitRun(4, m, 1, vals)
        /\ G = {}
        /\ neighbours_map = [i \in NodesOf(4) |-> <<>>]
        /\ current_values = EmptyMap
        /\ pc = "gnm"

SpecAnyOrder == InitAnyOrder /\ [][NextAnyOrder]_vars

\* ---- notions the properties are stated with ----
Degree(i) == Cardinality(Neighbors(G, i))

RECURSIVE SumValues(_, _)
SumValues(f, S) ==
    IF S = {} THEN Float(0)
    ELSE LET j == CHOOSE x \in S : TRUE
         IN  FAdd[f[j], SumValues(f, S \ {j})]

RECURSIVE SumSet(_)
SumSet(V) ==
    IF V = {} THEN Float(0)
    ELSE LET v == CHOOSE x \in V : TRUE
         IN  FAdd[v, SumSet(V \ {v})]

RECURSIVE SumInts(_, _)
SumInts(f, S) ==
    IF S = {} THEN 0
    ELSE LET j == CHOOSE x \in S : TRUE
         IN  f[j] + SumInts(f, S \ {j})

\* the mean of node i's value and one value per neighbour, taken from vector cur
NeighbourhoodMean(cur, i) ==
    FDivInt[FAdd[cur[i], SumValues(cur, Neighbors(G, i))], 1 + Degree(i)]

\* the mean in which equal received values count once
DistinctMean(cur, i) ==
    LET V == {cur[j] : j \in Neighbors(G, i)}
    IN  FDivInt[FAdd[cur[i], SumSet(V)], 1 + Cardinality(V)]

Below(d) == FLess(d, TARGET_PRECISION)

AtRoundBoundary == pc \in {"for", "check", "report", "done"}

\* the values carried by a sequence of messages
Bodies(box) == [k \in 1 .. Len(box) |-> box[k].body.val]

\* the pre-round values of i's neighbours, in the order their senders broadcast
NeighbourValues(cur, i) ==
    LET nl == NeighbourList(G, i) IN [k \in 1 .. Len(nl) |-> cur[nl[k]]]

IsPrefix(s, t) == Len(s) <= Len(t) /\ s = SubSeq(t, 1, Len(s))

\* ---- C1 ----
\* C1: the run ends with exactly one outcome; Converged is reported at round k
\* exactly when k is the first round whose max-diff is below TARGET_PRECISION
\* (k <= MAX_ITER) and no round follows it; IterationLimitReached exactly when
\* MAX_ITER rounds ran and none was below; iterations_done never exceeds MAX_ITER.
C1_Outcome ==
    /\ iterations_done <= max_iter
    /\ Len(diff_log) = iterations_done
    /\ Cardinality(outcome) <= 1
    /\ (pc \in {"report", "done"} <=> Cardinality(outcome) = 1)
    /\ ("Converged" \in outcome =>
          /\ iterations_done >= 1
          /\ Below(diff_log[iterations_done])
          /\ \A j \in 1 .. (iterations_done - 1) : ~Below(diff_log[j]))
    /\ ("IterationLimitReached" \in outcome =>
          /\ iterations_done = max_iter
          /\ \A j \in 1 .. max_iter : ~Below(diff_log[j]))
    /\ (pc \in {"for", "send", "aggregate", "apply"} =>
          \A j \in 1 .. iterations_done : ~Below(diff_log[j]))

\* Converged at the last allowed round, after a round that was not below
C1_Witness ==
    /\ pc = "done"
    /\ outcome = {"Converged"}
    /\ iterations_done = max_iter
    /\ max_iter = 2
    /\ ~Below(diff_log[1])

\* ---- C2 ----
\* C2: every value a node aggregates is a neighbour's value as of the start of
\* the round; a new value is computed from the pre-round vector only;
\* current_values does not change while a round is under way and is replaced
\* by the complete new_values in one step.
C2_Step ==
    /\ (pc = "send" =>
          \A i \in Nodes : IsPrefix(Bodies(message_boxes[i]),
                                    NeighbourValues(current_values, i)))
    /\ (pc = "aggregate" =>
          received \o Bodies(message_boxes[ri]) = NeighbourValues(current_values, ri))
    /\ (pc \in {"send", "aggregate"} => current_values' = current_values)
    /\ (pc = "aggregate" /\ new_values' # new_values =>
          new_values' = new_values @@ (ri :> NeighbourhoodMean(current_values, ri)))
    /\ (current_values' # current_values =>
          \/ pc = "is_connected"
          \/ /\ pc = "apply"
             /\ DOMAIN new_values = Nodes
             /\ current_values' = new_values)

C2_SynchronousRound == [][C2_Step]_vars

\* a later round's complete new vector, different from the old one, about to be applied
C2_Witness ==
    /\ pc = "apply"
    /\ iterations_done >= 1
    /\ DOMAIN new_values = Nodes
    /\ \A i \in Nodes : new_values[i] # current_values[i]

\* ---- C3 ----
\* C3 as amended: a node's new value is the mean of its own value and every
\* value received this round, equal values counted as often as they were
\* received: the divisor is 1 + the number of messages received (1 + degree).
C3_MeanOfAllReceived ==
    pc \in {"aggregate", "apply"} =>
        \A i \in DOMAIN new_values :
            new_values[i] = NeighbourhoodMean(current_values, i)

\* a node whose neighbours sent equal values, so that counting them once would
\* give another mean
C3_Witness ==
    /\ pc = "apply"
    /\ \E i \in DOMAIN new_values :
          /\ Cardinality({current_values[j] : j \in Neighbors(G, i)}) < Degree(i)
          /\ new_values[i] # DistinctMean(current_values, i)

\* C3 as stated: the divisor is 1 + the number of distinct values received
C3_DistinctDivisor ==
    pc \in {"aggregate", "apply"} =>
        \A i \in DOMAIN new_values :
            new_values[i] = DistinctMean(current_values, i)

\* ---- C4 ----
MinValue(cur) == CHOOSE v \in {cur[i] : i \in DOMAIN cur} :
                    \A i \in DOMAIN cur : ~FLess(cur[i], v)

MaxValue(cur) == CHOOSE v \in {cur[i] : i \in DOMAIN cur} :
                    \A i \in DOMAIN cur : ~FLess(v, cur[i])

\* C4: the node values tend to the mean of the initial values.  Every round
\* replaces each value by a mean of values of the round before, so the common
\* limit lies between the least and the greatest value after every round; if
\* the limit is the true mean, the true mean lies between them after every round.
C4_LimitIsTrueMean ==
    pc = "check" =>
        /\ ~FLess(true_mean, MinValue(current_values))
        /\ ~FLess(MaxValue(current_values), true_mean)

\* ---- C5 ----
\* C5: on the cycle 0-1-2-3-0 with values 10, 20, 30, 40 the run ends Converged
\* within MAX_ITER rounds (the limit branch is never enabled), every final
\* value is within TARGET_PRECISION of 25, and every node sends exactly 2
\* messages in every round, 8 per round.
C5_CycleScenario ==
    /\ ~(pc = "for" /\ ~HasNextIteration(iteration, max_iter))
    /\ iterations_done <= MAX_ITER
    /\ (pc \in {"report", "done"} =>
          /\ outcome = {"Converged"}
          /\ \A i \in Nodes : Below(FAbs[FSub[current_values[i], Float(25)]]))
    /\ (pc = "send" => total_messages = 8 * iterations_done + 2 * si + (ni - 1))
    /\ (pc \in {"aggregate", "apply"} => total_messages = 8 * (iterations_done + 1))
    /\ (AtRoundBoundary => total_messages = 8 * iterations_done)

C5_Witness ==
    /\ pc = "done"
    /\ outcome = {"Converged"}
    /\ iterations_done = 12
    /\ total_messages = 96

\* ---- C6 ----
\* C6: every broadcast phase adds 2 x |E| to total_messages, so at every round
\* boundary total_messages = 2 x |E| x iterations_done.
C6_MessageCount ==
    /\ (AtRoundBoundary => total_messages = 2 * Cardinality(G) * iterations_done)
    /\ (pc \in {"aggregate", "apply"} =>
          total_messages = 2 * Cardinality(G) * (iterations_done + 1))

C6_Witness ==
    /\ pc = "check"
    /\ iterations_done = 2
    /\ Cardinality(G) = num_agents - 1
    /\ total_messages = 4 * (num_agents - 1)

\* ---- C7 ----
ArithPerRound == 4 * Cardinality(G) + num_agents

\* C7 as amended: total_arith_ops grows by 1 for every received payload that
\* parses and, when the node's mean is taken, by the number of values summed
\* (own value and parsed payloads: that many minus one additions, and the
\* division): 2 x degree + 1 for a node in a round, all payloads parsing.
C7_ArithOps ==
    /\ (pc \in {"aggregate", "apply"} =>
          total_arith_ops = ArithPerRound * iterations_done
                            + SumInts([i \in Nodes |-> 2 * Degree(i) + 1], DOMAIN new_values)
                            + Len(received))
    /\ (pc \in {"for", "send", "check", "report", "done"} =>
          total_arith_ops = ArithPerRound * iterations_done)

\* a node of degree at least 2 has aggregated
C7_Witness ==
    /\ pc = "aggregate"
    /\ \E i \in DOMAIN new_values : Degree(i) >= 2
    /\ total_arith_ops > 0

\* C7 as stated: a node's aggregation adds the number of values summed
\* (degree + 1) plus one for the division
C7_SummedPlusDivision ==
    (pc \in {"aggregate", "apply"} /\ received = <<>>
        /\ (pc = "aggregate" => Len(message_boxes[ri]) = Degree(ri))) =>
        total_arith_ops =
            SumInts([i \in Nodes |-> Degree(i) + 2], Nodes) * iterations_done
            + SumInts([i \in Nodes |-> Degree(i) + 2], DOMAIN new_values)

\* ---- C8 ----
Range(s) == {s[k] : k \in 1 .. Len(s)}

\* C8: the graph the rounds run on is connected (every split of the nodes in
\* two is crossed by an edge), has the requested number of edges, none of them
\* a self-loop, and its neighbour relation is irreflexive and symmetric, with
\* no neighbour listed twice.
C8_ConnectedGraph ==
    pc \notin {"gnm", "is_connected"} =>
        /\ Cardinality(G) = num_edges
        /\ \A e \in G : e \subseteq Nodes /\ Cardinality(e) = 2
        /\ \A S \in SUBSET Nodes :
              (S # {} /\ S # Nodes) =>
                  \E e \in G : e \cap S # {} /\ e \ S # {}
        /\ \A i \in Nodes :
              /\ i \notin Range(neighbours_map[i])
              /\ Len(neighbours_map[i]) = Cardinality(Range(neighbours_map[i]))
              /\ \A j \in Nodes :
                    j \in Range(neighbours_map[i]) <=> {i, j} \in G
              /\ \A j \in Range(neighbours_map[i]) : i \in Range(neighbours_map[j])

\* a round runs after a disconnected candidate was discarded
C8_Witness ==
    /\ rejected
    /\ pc = "send"
    /\ total_messages > 0

\* ---- C9 ----
\* C9: every run terminates with a final value vector and the cost report:
\* generation reaches a connected graph, every drain ends and the loop stops.
C9_Termination ==
    <>(/\ pc = "done"
       /\ Cardinality(outcome) = 1
       /\ DOMAIN current_values = Nodes
       /\ final_val = current_values[0]
       /\ iterations_done <= max_iter
       /\ total_cost = Norm[100 * (num_agents + iterations_done + 1000)
                            + total_arith_ops + 10 * total_messages, 100])

C9_Witness ==
    /\ pc = "done"
    /\ rejected
    /\ outcome = {"IterationLimitReached"}
    /\ iterations_done = max_iter
    /\ FLess(Float(1000), total_cost)

\* ---- C10 ----
\* C10: with one unparseable payload in a node's mailbox the round completes,
\* and every new value is the one the round gives without that payload: the
\* payload is not counted as zero and does not enter the divisor.
C10_MalformedIgnored ==
    /\ (pc = "aggregate" =>
          IsPrefix(received, NeighbourValues(current_values, ri)))
    /\ ((pc \in {"aggregate", "apply"} /\ injected # {}) =>
          \A i \in DOMAIN new_values :
              new_values[i] = NeighbourhoodMean(current_values, i))
    /\ ((pc = "apply" /\ injected # {}) =>
          /\ DOMAIN new_values = Nodes
          /\ \A i \in Nodes : message_boxes[i] = <<>>)

\* the round is complete after a payload was injected into a node with
\* a non-zero value in its neighbourhood
C10_Witness ==
    /\ pc = "apply"
    /\ \E i \in Nodes :
          /\ <<i, iteration>> \in injected
          /\ new_values[i] # Float(0)

\* ---- C11 ----
\* the change of node i's value in the round that would start from vector cur
NextChange(cur, i) ==
    FAbs[FSub[Mean(AllVals(cur[i], NeighbourValues(cur, i))), cur[i]]]

\* C11: the max-diff of a round never exceeds the max-diff of the round before
\* it, and a further round on the vector a round ends with changes no node's
\* value by more than that round's max-diff: by no more than TARGET_PRECISION
\* when the round's max-diff was below TARGET_PRECISION.
C11_MaxDiffNonIncreasing ==
    /\ \A j \in 1 .. (Len(diff_log) - 1) : ~FLess(diff_log[j], diff_log[j + 1])
    /\ (pc \in {"check", "report", "done"} /\ iterations_done >= 1 =>
          \A i \in Nodes :
              /\ ~FLess(max_diff, NextChange(current_values, i))
              /\ (Below(max_diff) =>
                     ~FLess(TARGET_PRECISION, NextChange(current_values, i))))

\* a round ends below TARGET_PRECISION with values that still differ, after
\* a round with a greater max-diff, and a further round would change a value
C11_Witness ==
    /\ pc = "check"
    /\ iterations_done >= 2
    /\ Below(max_diff)
    /\ FLess(Float(0), max_diff)
    /\ FLess(max_diff, diff_log[iterations_done - 1])
    /\ \E i \in Nodes : FLess(Float(0), NextChange(current_values, i))

\* ---- C12 ----
\* the greatest of a set of non-negative values
MaxOf(V) == CHOOSE v \in V : \A w \in V : ~FLess(v, w)

\* the vector a round gives from vector cur, and that round's max-diff
RoundStep(cur) == [i \in Nodes |-> NeighbourhoodMean(cur, i)]

RoundDiff(cur) == MaxOf({FAbs[FSub[RoundStep(cur)[i], cur[i]]] : i \in Nodes})

\* the number of rounds executed from vector cur when k rounds are done
RECURSIVE RoundsFrom(_, _, _)
RoundsFrom(cur, k, cap) ==
    IF k >= cap THEN k
    ELSE IF Below(RoundDiff(cur)) THEN k + 1
    ELSE RoundsFrom(RoundStep(cur), k + 1, cap)

\* C12: the number of rounds a run executes is a function of the topology, the
\* initial values and the round limit, and total_messages and total_arith_ops
\* at the end are functions of the node count, the edge set and the number of
\* rounds: runs from the same topology and initial values end with the same
\* counts, whatever happened before the topology was accepted.
C12_CostDeterminism ==
    pc \in {"report", "done"} =>
        /\ iterations_done = RoundsFrom(initial_values, 0, max_iter)
        /\ total_messages = 2 * Cardinality(G) * iterations_done
        /\ total_arith_ops = (4 * Cardinality(G) + num_agents) * iterations_done
        /\ (pc = "done" =>
              total_cost = TotalCost(num_agents, iterations_done,
                                     (4 * Cardinality(G) + num_agents) * iterations_done,
                                     2 * Cardinality(G) * iterations_done))

\* a run that discarded a candidate graph before it accepted a tree ends with
\* the counts of three rounds on three edges
C12_Witness ==
    /\ pc = "done"
    /\ rejected
    /\ Cardinality(G) = 3
    /\ iterations_done = 3
    /\ total_messages = 18
    /\ total_arith_ops = 48

\* ---- C13 ----
\* C13: total_messages, total_arith_ops and iterations_done are zero until the
\* first round starts and no step decreases one of them; iterations_done grows
\* by exactly 1 in the step that completes a round and in no other step; no
\* counter changes once the loop is left.
C13_Step ==
    /\ ((pc \in {"gnm", "is_connected"} \/ (pc = "for" /\ iteration = 0)) =>
          /\ total_messages = 0
          /\ total_arith_ops = 0
          /\ iterations_done = 0)
    /\ total_messages' >= total_messages
    /\ total_arith_ops' >= total_arith_ops
    /\ iterations_done' >= iterations_done
    /\ (pc = "apply" => iterations_done' = iterations_done + 1)
    /\ (pc # "apply" => iterations_done' = iterations_done)
    /\ (pc # "send" => total_messages' = total_messages)
    /\ (pc # "aggregate" => total_arith_ops' = total_arith_ops)
    /\ (pc \in {"report", "done"} => UNCHANGED counters)

C13_LedgerMonotone == [][C13_Step]_vars

\* the loop is left after three rounds, the counters at their final values
C13_Witness ==
    /\ pc = "report"
    /\ iterations_done = 3
    /\ total_messages > 0
    /\ total_arith_ops > total_messages

\* ---- C14 ----
\* the broadcast phase is over and no node has aggregated yet
AtBarrier == pc = "send" /\ si >= num_agents

\* box holds one message from each neighbour of i with that neighbour's value
\* in cur, and nothing else
OnePerNeighbour(box, cur, i) ==
    /\ Len(box) = Degree(i)
    /\ \A k \in 1 .. Len(box) :
          /\ box[k].by \in Neighbors(G, i)
          /\ box[k].by # i
          /\ box[k].to = i
          /\ box[k].body = Payload(cur[box[k].by])
    /\ \A j \in Neighbors(G, i) :
          Cardinality({k \in 1 .. Len(box) : box[k].by = j}) = 1

\* C14: at the barrier every mailbox holds exactly one message from each
\* neighbour of its node, carrying that neighbour's pre-round value, and none
\* from a non-neighbour or from the node itself; in the aggregate phase no
\* mailbox grows, the boxes of the nodes still to aggregate are untouched, and
\* a node takes its mean when it has consumed exactly degree(node) messages.
C14_Step ==
    /\ (AtBarrier =>
          \A i \in Nodes : OnePerNeighbour(message_boxes[i], current_values, i))
    /\ (pc = "aggregate" =>
          /\ \A i \in Nodes : Len(message_boxes'[i]) <= Len(message_boxes[i])
          /\ \A i \in Nodes :
                /\ (i < ri => message_boxes[i] = <<>>)
                /\ (i > ri => OnePerNeighbour(message_boxes[i], current_values, i))
          /\ Len(received) + Len(message_boxes[ri]) = Degree(ri)
          /\ (~HasMessage(message_boxes, ri) => Len(received) = Degree(ri)))

C14_MailboxAtBarrier == [][C14_Step]_vars

\* the barrier of a later round on a star: the centre's box holds three
\* messages, a leaf's box one
C14_Witness ==
    /\ AtBarrier
    /\ iterations_done >= 1
    /\ \E i, j \in Nodes :
          /\ Len(message_boxes[i]) = 3
          /\ Len(message_boxes[j]) = 1
          /\ current_values[i] # current_values[j]

\* ---- C15 ----
AllBoxesEmpty(boxes) == \A i \in DOMAIN boxes : boxes[i] = <<>>

\* C15: outside the broadcast and aggregate phases every mailbox is empty: so
\* after the aggregate phase of every round and before the first round; every
\* mailbox is empty when a broadcast phase starts; a mailbox only ever holds
\* messages of the round under way, and the message receive() hands out was
\* sent in the round that consumes it.
C15_Step ==
    /\ (pc \notin {"send", "aggregate"} => AllBoxesEmpty(message_boxes))
    /\ (pc = "for" /\ pc' = "send" => AllBoxesEmpty(message_boxes'))
    /\ \A i \in Nodes : \A k \in 1 .. Len(message_boxes[i]) :
          message_boxes[i][k].round = iteration
    /\ (pc = "aggregate" /\ message_boxes' # message_boxes =>
          /\ Head(message_boxes[ri]).round = iteration
          /\ message_boxes' = [message_boxes EXCEPT ![ri] = Tail(@)]
          /\ iteration' = iteration)

C15_RoundBuffers == [][C15_Step]_vars

\* the broadcast phase of the third round starts on empty mailboxes, after
\* two rounds that sent and consumed messages
C15_Witness ==
    /\ pc = "send"
    /\ iteration = 2
    /\ total_messages = 4 * Cardinality(G)
    /\ total_arith_ops = 2 * ArithPerRound
    /\ AllBoxesEmpty(message_boxes)

\* ---- C16 ----
\* the value the program's order of sending gives node i from vector cur
ProgramOrderValue(cur, i) == Mean(AllVals(cur[i], NeighbourValues(cur, i)))

Change(i) == FAbs[FSub[new_values[i], current_values[i]]]

\* C17: max_diff is 0 when the aggregate phase of a round starts, and while
\* the nodes aggregate it is the greatest |new value - old value| over the
\* nodes that have aggregated in this round; the value tested at the end of
\* the round is that maximum over all nodes, and the run reports Converged
\* exactly when it is strictly below TARGET_PRECISION.
C17_Step ==
    /\ (pc = "send" /\ pc' = "aggregate" => max_diff' = Float(0))
    /\ (pc = "aggregate" =>
          max_diff = MaxOf({Float(0)} \cup {Change(i) : i \in DOMAIN new_values}))
    /\ (pc = "apply" =>
          /\ max_diff = MaxOf({Change(i) : i \in Nodes})
          /\ max_diff' = max_diff)
    /\ (pc = "check" =>
          /\ max_diff' = max_diff
          /\ ("Converged" \in outcome' <=> Below(max_diff))
          /\ (Below(max_diff) <=> pc' = "report"))

C17_RoundMetric == [][C17_Step]_vars

\* the end of a round whose max-diff is exactly TARGET_PRECISION
C17_Witness ==
    /\ pc = "check"
    /\ iterations_done = 1
    /\ max_diff = TARGET_PRECISION
    /\ outcome = {}

\* ---- C18 ----
Spread(cur) == FSub[MaxValue(cur), MinValue(cur)]

\* v lies between the least and the greatest value of vector cur
Within(v, cur) == ~FLess(v, MinValue(cur)) /\ ~FLess(MaxValue(cur), v)

\* C18: every current value and every new value lies between the least and
\* the greatest initial value; every new value lies between the least and the
\* greatest pre-round value, and the spread of the new vector is not greater
\* than the spread of the vector it replaces.
C18_HullAndSpread ==
    /\ (pc \notin {"gnm", "is_connected"} =>
          /\ \A i \in Nodes : Within(current_values[i], initial_values)
          /\ \A i \in DOMAIN new_values : Within(new_values[i], initial_values))
    /\ (pc \in {"aggregate", "apply"} =>
          \A i \in DOMAIN new_values : Within(new_values[i], current_values))
    /\ (pc = "apply" => ~FLess(Spread(current_values), Spread(new_values)))

\* a later round on a graph with unequal degrees narrows a spread that the
\* round does not close
C18_Witness ==
    /\ pc = "apply"
    /\ iterations_done >= 1
    /\ \E i, j \in Nodes : Degree(i) # Degree(j)
    /\ FLess(Spread(new_values), Spread(current_values))
    /\ FLess(Float(0), Spread(new_values))
    /\ FLess(MinValue(initial_values), MinValue(new_values))
    /\ FLess(MaxValue(new_values), MaxValue(initial_values))

\* ---- C19 ----
Regular == \A i, j \in Nodes : Degree(i) = Degree(j)

\* the vector with value 60 at node j and 0 elsewhere
Indicator(j) == [i \in Nodes |-> IF i = j THEN Float(60) ELSE Float(0)]

\* the sum of the values a round gives from vector cur
SumAfterRound(cur) ==
    SumValues([i \in Nodes |-> ProgramOrderValue(cur, i)], Nodes)

====
